---------------------------- MODULE Spec2Model ----------------------------
(***************************************************************************)
(* Model of the backathon object-graph layer: the scan engine              *)
(* (backathon/scan.py, FSEntry.scan in backathon/models.py), the backup    *)
(* engine (backathon/backup.py) and the garbage collector                  *)
(* (Object.collect_garbage in backathon/models.py).                        *)
(***************************************************************************)
EXTENDS Integers, Sequences, FiniteSets, TLC

VARIABLES
    fs,         \* the local filesystem: path -> [kind, mtime, content, readable, search]
    entries,    \* table fsentry: id -> [path, parent, obj, new, st]
    nextId,     \* next AUTOINCREMENT id of table fsentry
    scanPc,     \* position of scan(): "idle", "first", "newcheck", "new"
    scanCur,    \* rows fetched by qs.iterator() and not yet scanned
    scanSave,   \* table fsentry at the start of the open atomic_immediate block
    seen,       \* the filesystem as the last complete scan of every row found it
    fsOps,      \* number of changes made to the filesystem so far
    objects,    \* table objects: the objids that have a row
    relations,  \* table object_relations: pairs <<parent objid, child objid>>
    snapshots,  \* table snapshots: records [path, root, date]
    remoteSnaps,\* the snapshots that put_snapshot has stored
    hashed,     \* the payloads hashed so far; the objid of hashed[k] is k
    remote,     \* the objids stored in the remote storage
    puts,       \* the objids uploaded by this process, one element per upload
    clock,      \* the number of backup runs started: the run's timezone.now()
    bkPc,       \* position of backup(): "idle", "check", "iter", "wait", ...
    readyCur,   \* rows fetched by ready_to_backup.iterator() and not yet submitted
    ct,         \* ct of the current pass of the outer loop
    tasks,      \* the futures held by the producer
    queue,      \* the executor's work queue: [t, e]
    finished,   \* the futures that are done: [t, eid, ok]
    nextTask,   \* number of the next future
    w,          \* the worker thread: backup_entry and its generator
    snapCur,    \* root rows fetched for the snapshot loop and not yet handled
    bkDirty,    \* whether backup() found to_backup non-empty when it was called
    faults,     \* number of failures of the remote storage so far
    garbage,    \* objids yielded by collect_garbage that its caller has not deleted yet
    gcRuns,     \* number of collect_garbage runs so far
    ev          \* the last step taken: [op, id, out, pre]

fsVars == <<fs, fsOps>>
entVars == <<entries, nextId>>
scanVars == <<scanPc, scanCur, scanSave, seen>>
objVars == <<objects, relations, hashed, remote, puts>>
snapVars == <<snapshots, remoteSnaps, clock>>
prodVars == <<bkPc, readyCur, ct, tasks, nextTask, snapCur, bkDirty>>
workVars == <<queue, finished, w, faults>>
gcVars == <<garbage, gcRuns>>

vars == <<fsVars, entVars, scanVars, objVars, snapVars, prodVars, workVars, gcVars, ev>>

-----------------------------------------------------------------------------
(* Bounds of the model *)

NPaths == 4          \* paths 1..NPaths; path p lies in directory p \div 2
MaxFsOps == 1        \* number of changes made to the filesystem after Init
MaxFileLen == 2      \* longest file content, in bytes
MaxByte == 1         \* file bytes are 0..MaxByte
MaxBackups == 2      \* number of backup() runs
MaxFaults == 1       \* number of failures of the remote storage
MaxGc == 1           \* number of collect_garbage runs
MaxSalt == 2         \* the random salts are 0..MaxSalt
MaxObjid == 40       \* largest objid of the graphs drawn with any digest
MaxObjects == 4      \* objids of the object graphs drawn for collect_garbage alone

Paths == 1..NPaths

PathParent(p) == p \div 2        \* 0: no parent inside the model (a top path)

NameOf(p) == p % 2               \* os.path.basename, unique within a directory

RECURSIVE SeqsUpTo(_, _)
SeqsUpTo(S, n) ==
    IF n = 0 THEN {<<>>}
    ELSE LET shorter == SeqsUpTo(S, n - 1)
         IN  shorter \cup {Append(s, x) : s \in {t \in shorter : Len(t) = n - 1}, x \in S}

\* the file contents of the model: not empty, and the first byte is 0
Contents == {c \in SeqsUpTo(0..MaxByte, MaxFileLen) : Len(c) > 0 /\ c[1] = 0}

NoFile == [kind |-> "none", mtime |-> 0, content |-> <<>>, readable |-> TRUE,
           search |-> TRUE]

-----------------------------------------------------------------------------
(* The filesystem as the program sees it *)

\* os.lstat succeeds: the path exists and every directory above it is a directory
RECURSIVE Exists(_, _)
Exists(F, p) ==
    /\ F[p].kind # "none"
    /\ IF PathParent(p) = 0 THEN TRUE
       ELSE F[PathParent(p)].kind = "dir" /\ Exists(F, PathParent(p))

\* os.lstat raises PermissionError: a directory above the path, reached
\* without error, gives no search permission
RECURSIVE Denied(_, _)
Denied(F, p) ==
    IF PathParent(p) = 0 THEN FALSE
    ELSE LET q == PathParent(p)
         IN  \/ Denied(F, q)
             \/ Exists(F, q) /\ F[q].kind = "dir" /\ ~F[q].search

\* (st_mode, st_mtime_ns, st_size) of os.lstat
Stat(F, p) == <<F[p].kind, F[p].mtime, Len(F[p].content)>>

\* os.listdir: the names in directory p, given here by their paths
ListDir(F, p) == {q \in Paths : PathParent(q) = p /\ F[q].kind # "none"}

\* st_mode of a row that was never scanned is NULL
NoStat == <<"null", 0, 0>>

-----------------------------------------------------------------------------
(* Table fsentry *)

Ids(E) == DOMAIN E

EmptyTable == [i \in {} |-> 0]

Row(E, i) == [id |-> i, path |-> E[i].path, parent |-> E[i].parent,
              obj |-> E[i].obj, new |-> E[i].new, st |-> E[i].st]

Fields(r) == [path |-> r.path, parent |-> r.parent, obj |-> r.obj,
              new |-> r.new, st |-> r.st]

\* i is x or lies below x by parent pointers (fuel bounds a malformed table)
RECURSIVE Under(_, _, _, _)
Under(E, i, x, fuel) ==
    \/ i = x
    \/ /\ fuel > 0
       /\ i \in Ids(E)
       /\ E[i].parent # 0
       /\ Under(E, E[i].parent, x, fuel - 1)

\* a DELETE of the rows S that leaves the rows below them
DeleteRowsAlone(E, S) == [i \in Ids(E) \ S |-> E[i]]

\* DELETE of the rows S; ON DELETE CASCADE on parent_id removes their subtrees
DeleteRows(E, S) ==
    LET gone == {i \in Ids(E) : \E x \in S : Under(E, i, x, Cardinality(Ids(E)))}
    IN  [i \in Ids(E) \ gone |-> E[i]]

\* a query that selects every row below row i, not its children alone
EveryRowBelow(E, i) == {j \in Ids(E) \ {i} : Under(E, j, i, Cardinality(Ids(E)))}

ChildrenOf(E, i) == {c \in Ids(E) : E[c].parent = i}

\* Model.save(): UPDATE of every field, INSERT when no row has the id
SaveRow(E, r) == [i \in Ids(E) \cup {r.id} |-> IF i = r.id THEN Fields(r) ELSE E[i]]

\* ids in ascending order, the order in which SQLite returns rows
RECURSIVE SortedIds(_)
SortedIds(S) ==
    IF S = {} THEN <<>>
    ELSE LET m == CHOOSE x \in S : \A y \in S : x <= y
         IN  <<m>> \o SortedIds(S \ {m})

Rows(E, S) == LET ids == SortedIds(S) IN [k \in 1..Len(ids) |-> Row(E, ids[k])]

\* FSEntry.invalidate: the recursive ancestors query, then UPDATE obj_id = NULL
RECURSIVE AncestorIds(_, _, _)
AncestorIds(E, i, fuel) ==
    IF i \notin Ids(E) THEN {}
    ELSE {i} \cup (IF E[i].parent # 0 /\ fuel > 0
                   THEN AncestorIds(E, E[i].parent, fuel - 1) ELSE {})

\* an invalidation that stops at the parent
invalidate_parent(E, i) ==
    [j \in Ids(E) |-> IF j = i \/ j = E[i].parent THEN [E[j] EXCEPT !.obj = 0] ELSE E[j]]

invalidate(E, i) ==
    LET anc == AncestorIds(E, i, Cardinality(Ids(E)))
    IN  [j \in Ids(E) |-> IF j \in anc THEN [E[j] EXCEPT !.obj = 0] ELSE E[j]]


-----------------------------------------------------------------------------
(* FSEntry.scan *)

Join(p, name) == 2 * p + name    \* os.path.join(self.path, newname)

Perms(S) == {s \in [1..Cardinality(S) -> S] : \A a, b \in DOMAIN s : s[a] = s[b] => a = b}

\* set(os.listdir(self.path)), empty on PermissionError
ListedNames(F, p) == IF F[p].readable THEN {NameOf(q) : q \in ListDir(F, p)} ELSE {}

\* a comparison that never finds the stat fields equal
compare_never(self, st) == FALSE

\* compare_stat_info
compare_stat_info(self, st) == self.st = st

\* entries.difference(c.name for c in children), when scan() gets to listing self
NewNames(E, F, self) ==
    IF /\ ~Denied(F, self.path)
       /\ Exists(F, self.path)
       /\ ~(~self.new /\ compare_stat_info(self, Stat(F, self.path)))
       /\ F[self.path].kind = "dir"
    THEN ListedNames(F, self.path) \ {NameOf(E[c].path) : c \in ChildrenOf(E, self.id)}
    ELSE {}

\* a creation that never meets an existing row: a new row is inserted whether
\* or not the path has one
CreateChildAnew(s, selfId, name, p) ==
    IF ~s.ok THEN s
    ELSE [E |-> [i \in Ids(s.E) \cup {s.nid} |->
                    IF i = s.nid
                    THEN [path |-> Join(p, name), parent |-> selfId, obj |-> 0,
                          new |-> TRUE, st |-> NoStat]
                    ELSE s.E[i]],
          nid |-> s.nid + 1, ok |-> TRUE]

\* FSEntry.objects.create(path, parent=self, new=True); on IntegrityError the
\* existing row is re-parented, which asserts that it is a root
CreateChild(s, selfId, name, p) ==
    LET E == s.E
        q == Join(p, name)
        hit == {i \in Ids(E) : E[i].path = q}
    IN  IF ~s.ok THEN s
        ELSE IF hit = {}
        THEN [E |-> [i \in Ids(E) \cup {s.nid} |->
                        IF i = s.nid
                        THEN [path |-> q, parent |-> selfId, obj |-> 0,
                              new |-> TRUE, st |-> NoStat]
                        ELSE E[i]],
              nid |-> s.nid + 1, ok |-> TRUE]
        ELSE LET r == CHOOSE i \in hit : TRUE
             IN  IF E[r].parent # 0
                 THEN [s EXCEPT !.ok = FALSE]
                 ELSE [s EXCEPT !.E = [E EXCEPT ![r].parent = selfId]]

RECURSIVE CreateChildren(_, _, _, _, _)
CreateChildren(s, selfId, p, ord, k) ==
    IF k > Len(ord) THEN s
    ELSE CreateChildren(CreateChild(s, selfId, ord[k], p), selfId, p, ord, k + 1)

\* FSEntry.scan() on the in-memory row `self`; `ord` is the order in which the
\* set of new names is iterated.  out: "deleted", "unchanged", "updated", or
\* "abort" when the assertion in the re-parenting branch fails or os.lstat
\* raises PermissionError, which scan() does not catch.
\* mem is the in-memory row afterwards (id 0 once deleted).
scan(E, nid, F, self, ord) ==
    IF Denied(F, self.path)
    THEN [E |-> E, nid |-> nid, out |-> "abort", mem |-> self]
    ELSE IF ~Exists(F, self.path)
    THEN [E |-> DeleteRows(E, {self.id}), nid |-> nid, out |-> "deleted",
          mem |-> [self EXCEPT !.id = 0]]
    ELSE
    LET st == Stat(F, self.path)
        E1 == IF self.st[1] = "dir" /\ st[1] # "dir"
              THEN DeleteRows(E, ChildrenOf(E, self.id))
              ELSE E
    IN  IF ~self.new /\ compare_stat_info(self, st)
        THEN [E |-> E1, nid |-> nid, out |-> "unchanged", mem |-> self]
        ELSE
        LET self2 == [self EXCEPT !.obj = 0, !.new = FALSE, !.st = st]
            children == ChildrenOf(E1, self.id)
            listed == ListedNames(F, self.path)
            made == IF st[1] = "dir"
                    THEN CreateChildren([E |-> E1, nid |-> nid, ok |-> TRUE],
                                        self.id, self.path, ord, 1)
                    ELSE [E |-> E1, nid |-> nid, ok |-> TRUE]
            old == IF st[1] = "dir"
                   THEN {c \in children : NameOf(E1[c].path) \notin listed}
                   ELSE {}
            E2 == DeleteRows(made.E, old)
            E3 == invalidate(SaveRow(E2, self2), self.id)
        IN  IF ~made.ok
            THEN [E |-> E, nid |-> nid, out |-> "abort", mem |-> self2]
            ELSE [E |-> E3, nid |-> made.nid, out |-> "updated", mem |-> self2]

-----------------------------------------------------------------------------
(* scan() of backathon/scan.py *)

\* seen before any complete scan, and while a scan of every row is under way
NoSeen == <<>>

Pending == <<"pending">>

NoEv == [op |-> "init", id |-> 0, out |-> "", pre |-> FALSE]

\* no call of the program is under way
Idle == scanPc = "idle" /\ bkPc = "idle" /\ garbage = {}

\* scan(alias, skip_existing): the first pass fetches every row
ScanStart(skip_existing) ==
    /\ Idle
    /\ IF skip_existing
       THEN /\ scanPc' = "newcheck"
            /\ UNCHANGED <<scanCur, scanSave, seen>>
       ELSE /\ scanPc' = "first"
            /\ scanCur' = Rows(entries, Ids(entries))
            /\ scanSave' = entries
            /\ seen' = IF seen = fs THEN seen ELSE Pending
    /\ ev' = [op |-> "scan_start", id |-> 0, out |-> "", pre |-> skip_existing]
    /\ UNCHANGED <<gcVars, fsVars, entVars, objVars, snapVars, prodVars, workVars>>

\* entry.scan() on the next fetched row, with the assertion of the new-rows loop
ScanEntry ==
    /\ scanPc \in {"first", "new"}
    /\ scanCur # <<>>
    /\ LET self == Head(scanCur)
       IN  \E ord \in Perms(NewNames(entries, fs, self)) :
           LET r == scan(entries, nextId, fs, self, ord)
               asserted == scanPc = "new" => (r.mem.new = FALSE \/ r.mem.id = 0)
           IN  IF r.out = "abort" \/ ~asserted
               THEN /\ entries' = scanSave
                    /\ nextId' = nextId
                    /\ scanPc' = "idle"
                    /\ scanCur' = <<>>
                    /\ scanSave' = EmptyTable
                    /\ seen' = NoSeen
                    /\ ev' = [op |-> "scan_error", id |-> self.id, out |-> r.out,
                              pre |-> FALSE]
               ELSE /\ entries' = r.E
                    /\ nextId' = r.nid
                    /\ scanPc' = scanPc
                    /\ scanCur' = Tail(scanCur)
                    /\ scanSave' = scanSave
                    /\ seen' = seen
                    /\ ev' = [op |-> "scan_entry", id |-> self.id, out |-> r.out,
                              pre |-> /\ Exists(fs, self.path)
                                      /\ \/ self.new
                                         \/ self.st # Stat(fs, self.path)]
    /\ UNCHANGED <<gcVars, fsVars, objVars, snapVars, prodVars, workVars>>

\* the end of a pass: the atomic block commits
ScanPassEnd ==
    /\ scanPc \in {"first", "new"}
    /\ scanCur = <<>>
    /\ scanPc' = "newcheck"
    /\ scanSave' = EmptyTable
    /\ ev' = [op |-> "scan_pass_end", id |-> 0, out |-> "", pre |-> FALSE]
    /\ UNCHANGED <<gcVars, fsVars, entVars, scanCur, seen, objVars, snapVars, prodVars, workVars>>

\* a query for new rows that selects nothing
NoNewIds(E) == {}

\* a query for new rows that selects the roots among them
NewRootIds(E) == {i \in Ids(E) : E[i].new /\ E[i].parent = 0}

NewIds(E) == {i \in Ids(E) : E[i].new}

\* while qs.exists(): the rows with new = true are fetched for the next pass
ScanNewCheck ==
    /\ scanPc = "newcheck"
    /\ IF NewIds(entries) # {}
       THEN /\ scanPc' = "new"
            /\ scanCur' = Rows(entries, NewIds(entries))
            /\ scanSave' = entries
            /\ seen' = seen
            /\ ev' = [op |-> "scan_new_pass", id |-> 0, out |-> "", pre |-> FALSE]
       ELSE /\ scanPc' = "idle"
            /\ seen' = IF seen = Pending THEN fs ELSE seen
            /\ UNCHANGED <<scanCur, scanSave>>
            /\ ev' = [op |-> "scan_done", id |-> 0, out |-> "", pre |-> FALSE]
    /\ UNCHANGED <<gcVars, fsVars, entVars, objVars, snapVars, prodVars, workVars>>


-----------------------------------------------------------------------------
(* Payloads, the chunker and the hash *)

InlineThreshold == 2     \* inline_threshold, in bytes
ChunkSize == 1           \* chunk size of the FixedChunker, in bytes
max_workers == 1         \* ThreadPoolExecutor(max_workers=1)

\* every payload has the same shape: the type tag, the metadata record
\* (size, inode, file type of mode, mtime; 0 where the type has none), then
\* the tagged content: immediate bytes, or a list of (offset or name, objid)
NoInfo == <<0, 0, "", 0>>

NoPayload == [type |-> "", info |-> NoInfo, tag |-> "", imm |-> <<>>, refs |-> <<>>]

BlobPayload(bytes) ==
    [type |-> "blob", info |-> NoInfo, tag |-> "", imm |-> bytes, refs |-> <<>>]

\* a metadata record without the inode number
InodeInfoNoIno(F, p) == <<Len(F[p].content), 0, F[p].kind, F[p].mtime>>

InodeInfo(F, p) == <<Len(F[p].content), p, F[p].kind, F[p].mtime>>

TreeInfo(F, p) == <<0, 0, F[p].kind, F[p].mtime>>

InodeImmediate(info, bytes) ==
    [type |-> "inode", info |-> info, tag |-> "immediate", imm |-> bytes, refs |-> <<>>]

InodeChunked(info, chunk_list) ==
    [type |-> "inode", info |-> info, tag |-> "chunklist", imm |-> <<>>, refs |-> chunk_list]

TreePayload(info, names) ==
    [type |-> "tree", info |-> info, tag |-> "", imm |-> <<>>, refs |-> names]

Min(a, b) == IF a < b THEN a ELSE b

\* chunker.FixedChunker(fobj): (pos, chunk) for each window of ChunkSize bytes
RECURSIVE FixedChunker(_, _)
FixedChunker(content, pos) ==
    IF pos >= Len(content) THEN <<>>
    ELSE <<[pos |-> pos,
            bytes |-> SubSeq(content, pos + 1, Min(pos + ChunkSize, Len(content)))]>>
         \o FixedChunker(content, pos + ChunkSize)

\* the digest of a payload: equal payloads have equal objids, different
\* payloads different ones (the k-th distinct payload hashed has objid k)
Known(h, payload) == \E k \in DOMAIN h : h[k] = payload

ObjidOf(h, payload) ==
    IF Known(h, payload) THEN CHOOSE k \in DOMAIN h : h[k] = payload ELSE Len(h) + 1

Hashing(h, payload) == IF Known(h, payload) THEN h ELSE Append(h, payload)

-----------------------------------------------------------------------------
(* backup_iterator and backup_entry, run by the worker thread *)

NoRow == [id |-> 0, path |-> 0, parent |-> 0, obj |-> 0, new |-> FALSE, st |-> NoStat]

\* the worker: pc "idle", "upload" (a payload is yielded, push_object has not
\* uploaded it yet) or "commit" (uploaded, the row is not inserted yet)
WIdle == [pc |-> "idle", t |-> 0, eid |-> 0, e |-> NoRow, info |-> NoInfo,
          chunks |-> <<>>, chunk_list |-> <<>>, relations |-> <<>>,
          payload |-> NoPayload, final |-> FALSE]

Yield(wk, payload, final) == [wk EXCEPT !.pc = "upload", !.payload = payload, !.final = final]

\* a test that inlines a file of the size of the threshold too
AtMostThreshold(st_size) == st_size <= InlineThreshold

\* stat_result.st_size < inline_threshold
BelowThreshold(st_size) == st_size < InlineThreshold

\* the generator up to its first yield.  out: "return" (the entry was deleted),
\* "raise" (DependencyError), "denied" (os.lstat raised PermissionError, which
\* is not caught) or "yield"
GenStart(E, F, wk) ==
    LET e == wk.e
        p == e.path
    IN  IF Denied(F, p)
        THEN [out |-> "denied", E |-> E, w |-> wk]
        ELSE IF ~Exists(F, p)
        THEN [out |-> "return", E |-> DeleteRows(E, {e.id}), w |-> [wk EXCEPT !.e.id = 0]]
        ELSE
        LET e1 == [e EXCEPT !.st = Stat(F, p)]
            w1 == [wk EXCEPT !.e = e1]
        IN  CASE F[p].kind = "file" ->
                 LET w2 == [w1 EXCEPT !.info = InodeInfo(F, p)]
                     chunks == FixedChunker(F[p].content, 0)
                 IN  IF ~F[p].readable
                     THEN [out |-> "return", E |-> DeleteRows(E, {e.id}),
                           w |-> [w2 EXCEPT !.e.id = 0]]
                     ELSE IF BelowThreshold(Stat(F, p)[3])
                     THEN [out |-> "yield", E |-> E,
                           w |-> Yield(w2, InodeImmediate(w2.info, F[p].content), TRUE)]
                     ELSE IF chunks = <<>>
                     THEN [out |-> "yield", E |-> E,
                           w |-> Yield(w2, InodeChunked(w2.info, <<>>), TRUE)]
                     ELSE [out |-> "yield", E |-> E,
                           w |-> Yield([w2 EXCEPT !.chunks = chunks],
                                       BlobPayload(chunks[1].bytes), FALSE)]
              [] F[p].kind = "dir" ->
                 LET children == Rows(E, ChildrenOf(E, e.id))
                     names == [k \in DOMAIN children |->
                                  <<NameOf(children[k].path), children[k].obj>>]
                     rels == [k \in DOMAIN children |-> children[k].obj]
                 IN  IF \E k \in DOMAIN children : children[k].obj = 0
                     THEN [out |-> "raise", E |-> E, w |-> w1]
                     ELSE [out |-> "yield", E |-> E,
                           w |-> Yield([w1 EXCEPT !.relations = rels],
                                       TreePayload(TreeInfo(F, p), names), TRUE)]
              [] OTHER ->
                 [out |-> "return", E |-> DeleteRows(E, {e.id}),
                  w |-> [w1 EXCEPT !.e.id = 0]]

\* a generator that sets obj on its own copy of the entry and does not save it
GenSendUnsaved(E, wk, objid) ==
    [out |-> "return", E |-> E, w |-> [wk EXCEPT !.e.obj = objid]]

\* a generator that puts each new chunk at the head of the chunk list
GenSendReversed(E, wk, objid) ==
    IF wk.final
    THEN LET e1 == [wk.e EXCEPT !.obj = objid]
         IN  [out |-> "return", E |-> SaveRow(E, e1), w |-> [wk EXCEPT !.e = e1]]
    ELSE LET cl == <<<<wk.chunks[1].pos, objid>>>> \o wk.chunk_list
             rl == Append(wk.relations, objid)
             rest == Tail(wk.chunks)
             w1 == [wk EXCEPT !.chunk_list = cl, !.relations = rl, !.chunks = rest]
         IN  IF rest = <<>>
             THEN [out |-> "yield", E |-> E,
                   w |-> Yield(w1, InodeChunked(wk.info, cl), TRUE)]
             ELSE [out |-> "yield", E |-> E,
                   w |-> Yield(w1, BlobPayload(rest[1].bytes), FALSE)]

\* iterator.send(obj): the generator from a yield to the next one, or to its end
GenSend(E, wk, objid) ==
    IF wk.final
    THEN LET e1 == [wk.e EXCEPT !.obj = objid]
         IN  [out |-> "return", E |-> SaveRow(E, e1), w |-> [wk EXCEPT !.e = e1]]
    ELSE LET cl == Append(wk.chunk_list, <<wk.chunks[1].pos, objid>>)
             rl == Append(wk.relations, objid)
             rest == Tail(wk.chunks)
             w1 == [wk EXCEPT !.chunk_list = cl, !.relations = rl, !.chunks = rest]
         IN  IF rest = <<>>
             THEN [out |-> "yield", E |-> E,
                   w |-> Yield(w1, InodeChunked(wk.info, cl), TRUE)]
             ELSE [out |-> "yield", E |-> E,
                   w |-> Yield(w1, BlobPayload(rest[1].bytes), FALSE)]

\* the assertion that ends backup_entry
EntryAssert(e) == e.obj # 0 \/ e.id = 0

\* the relations handed to push_object with the pending payload
YieldedRelations(wk) == IF wk.final THEN wk.relations ELSE <<>>

HasDuplicates(s) == \E a, b \in DOMAIN s : a # b /\ s[a] = s[b]

\* what a step of the generator leaves behind: the next yield is pending, or
\* backup_entry is over and its future is done (ok: it returned, and its
\* closing assertion held) 
Settle(g, op) ==
    /\ entries' = g.E
    /\ CASE g.out = "yield" ->
              /\ w' = g.w
              /\ finished' = finished
              /\ ev' = [op |-> op, id |-> g.w.eid, out |-> g.w.payload.type, pre |-> FALSE]
         [] g.out = "return" ->
              /\ w' = WIdle
              /\ finished' = finished \cup {[t |-> g.w.t, eid |-> g.w.eid, ok |-> EntryAssert(g.w.e)]}
              /\ ev' = [op |-> IF EntryAssert(g.w.e) THEN "task_return" ELSE "task_raise",
                        id |-> g.w.eid,
                        out |-> IF EntryAssert(g.w.e) THEN "" ELSE "AssertionError",
                        pre |-> FALSE]
         [] OTHER ->
              /\ w' = WIdle
              /\ finished' = finished \cup {[t |-> g.w.t, eid |-> g.w.eid, ok |-> FALSE]}
              /\ ev' = [op |-> "task_raise", id |-> g.w.eid,
                        out |-> IF g.out = "denied" THEN "PermissionError"
                                ELSE "DependencyError",
                        pre |-> FALSE]

\* the worker takes the next submitted backup_entry(repo, entry)
TaskStart ==
    /\ bkPc # "idle"
    /\ w.pc = "idle"
    /\ queue # <<>>
    /\ LET job == Head(queue)
           wk == [WIdle EXCEPT !.t = job.t, !.eid = job.e.id, !.e = job.e]
       IN  Settle(GenStart(entries, fs, wk), "task_start")
    /\ queue' = Tail(queue)
    /\ UNCHANGED <<gcVars, fsVars, nextId, scanVars, objVars, snapVars, prodVars, faults>>

\* Object(objid) exists
HasRow(objs, o) == o \in objs

\* a remote storage that acknowledges and stores nothing
put_lost(store, o) == store

\* the remote storage after put(objid, payload) has returned
put(store, o) == store \cup {o}

\* push_object: the payload is hashed; an Object row with that objid is
\* returned as it is, otherwise the payload is uploaded
TaskUpload ==
    /\ w.pc = "upload"
    /\ LET o == ObjidOf(hashed, w.payload)
       IN  /\ hashed' = Hashing(hashed, w.payload)
           /\ IF HasRow(objects, o)
              THEN /\ Settle(GenSend(entries, w, o), "admit_existing")
                   /\ UNCHANGED <<remote, puts>>
              ELSE /\ remote' = put(remote, o)
                   /\ puts' = Append(puts, o)
                   /\ w' = [w EXCEPT !.pc = "commit"]
                   /\ ev' = [op |-> "upload", id |-> o, out |-> w.payload.type, pre |-> FALSE]
                   /\ UNCHANGED <<entries, finished>>
    /\ UNCHANGED <<gcVars, fsVars, nextId, scanVars, objects, relations, snapVars, prodVars, queue, faults>>

\* the upload fails: push_object raises, and with it backup_entry
TaskUploadFail ==
    /\ w.pc = "upload"
    /\ faults < MaxFaults
    /\ ~HasRow(objects, ObjidOf(hashed, w.payload))
    /\ hashed' = Hashing(hashed, w.payload)
    /\ w' = WIdle
    /\ finished' = finished \cup {[t |-> w.t, eid |-> w.eid, ok |-> FALSE]}
    /\ faults' = faults + 1
    /\ ev' = [op |-> "task_raise", id |-> w.eid, out |-> "UploadError", pre |-> FALSE]
    /\ UNCHANGED <<gcVars, fsVars, entVars, scanVars, objects, relations, remote, puts,
                   snapVars, prodVars, queue>>

\* relation rows with parent and child exchanged
SwappedRelations(o, rels) == {<<rels[k], o>> : k \in DOMAIN rels}

\* the ObjectRelation rows of a new Object: (parent, child) for each relation
\* the generator yielded with it
NewRelations(o, rels) == {<<o, rels[k]>> : k \in DOMAIN rels}

\* push_object once the remote has acknowledged: the Object row and its
\* ObjectRelation rows are inserted and committed; UNIQUE(parent, child)
\* rejects a list that names a child twice
TaskCommit ==
    /\ w.pc = "commit"
    /\ LET o == ObjidOf(hashed, w.payload)
           rels == YieldedRelations(w)
       IN  IF HasDuplicates(rels)
           THEN /\ w' = WIdle
                /\ finished' = finished \cup {[t |-> w.t, eid |-> w.eid, ok |-> FALSE]}
                /\ ev' = [op |-> "task_raise", id |-> w.eid, out |-> "IntegrityError",
                          pre |-> FALSE]
                /\ UNCHANGED <<entries, objects, relations>>
           ELSE /\ objects' = objects \cup {o}
                /\ relations' = relations \cup NewRelations(o, rels)
                /\ Settle(GenSend(entries, w, o), "admit_new")
    /\ UNCHANGED <<gcVars, fsVars, nextId, scanVars, hashed, remote, puts, snapVars, prodVars, queue, faults>>

-----------------------------------------------------------------------------
(* backup(): the producer *)


\* to_backup: filter(obj__isnull=True)
ToBackup(E) == {i \in Ids(E) : E[i].obj = 0}

\* a ready query that leaves out the exclusion of parents
ReadyUnordered(E) == ToBackup(E)

\* to_backup without the parents of rows of to_backup
\* a ready query that selects the dirty rows without any child
ReadyChildless(E) == {i \in ToBackup(E) : ChildrenOf(E, i) = {}}

ReadyToBackup(E) ==
    ToBackup(E) \ {E[i].parent : i \in {j \in ToBackup(E) : E[j].parent # 0}}

Roots(E) == {i \in Ids(E) : E[i].parent = 0}

\* every row, root or not
AllRows(E) == Rows(E, Ids(E))

\* the rows of filter(parent__isnull=True), which get a snapshot each
RootRows(E) == Rows(E, Roots(E))

\* backup() is called: it refuses to run while a row has new = true
BackupStart ==
    /\ Idle
    /\ clock < MaxBackups
    /\ IF NewIds(entries) # {}
       THEN /\ ev' = [op |-> "backup_error", id |-> 0, out |-> "RuntimeError", pre |-> FALSE]
            /\ UNCHANGED <<prodVars, workVars, puts, clock>>
       ELSE /\ bkPc' = "check"
            /\ bkDirty' = (ToBackup(entries) # {})
            /\ tasks' = {}
            /\ nextTask' = 1
            /\ ct' = 0
            /\ puts' = <<>>
            /\ clock' = clock + 1
            /\ ev' = [op |-> "backup_start", id |-> 0, out |-> "", pre |-> FALSE]
            /\ UNCHANGED <<readyCur, snapCur, workVars>>
    /\ UNCHANGED <<gcVars, fsVars, entVars, scanVars, objects, relations, hashed, remote, snapshots,
                   remoteSnaps>>

\* while to_backup.exists(): the ready rows are fetched for the inner loop
BackupCheck ==
    /\ bkPc = "check"
    /\ IF ToBackup(entries) # {}
       THEN /\ bkPc' = "iter"
            /\ ct' = 0
            /\ readyCur' = Rows(entries, ReadyToBackup(entries))
       ELSE /\ bkPc' = "shutdown"
            /\ UNCHANGED <<ct, readyCur>>
    /\ ev' = [op |-> "backup_check", id |-> 0, out |-> "", pre |-> FALSE]
    /\ UNCHANGED <<gcVars, fsVars, entVars, scanVars, objVars, snapVars, tasks, nextTask,
                   snapCur, bkDirty, workVars>>

\* the inner loop takes a row and submits backup_entry for it
BackupSubmit ==
    /\ bkPc = "iter"
    /\ readyCur # <<>>
    /\ LET entry == Head(readyCur)
       IN  /\ ct' = ct + 1
           /\ readyCur' = Tail(readyCur)
           /\ IF entry.obj # 0
              THEN /\ bkPc' = "abort"
                   /\ UNCHANGED <<tasks, nextTask, queue>>
              ELSE /\ bkPc' = "wait"
                   /\ tasks' = tasks \cup {nextTask}
                   /\ nextTask' = nextTask + 1
                   /\ queue' = Append(queue, [t |-> nextTask, e |-> entry])
           /\ ev' = [op |-> "submit", id |-> entry.id, out |-> "", pre |-> FALSE]
    /\ UNCHANGED <<gcVars, fsVars, entVars, scanVars, objVars, snapVars, snapCur, bkDirty, finished, w, faults>>

Done(t) == \E f \in finished : f.t = t

Failed(t) == \E f \in finished : f.t = t /\ ~f.ok

\* a wait that always polls
NeverBlocking(n) == FALSE

\* timeout = None when len(tasks) < executor._max_workers + 1 is false
Blocking(n) == ~(n < max_workers + 1)

\* concurrent.futures.wait(tasks, timeout): without blocking while fewer than
\* max_workers + 1 futures are held, otherwise until all of them are done;
\* then f.result() for each future that is done
BackupWait ==
    /\ bkPc = "wait"
    /\ Blocking(Cardinality(tasks)) => \A t \in tasks : Done(t)
    /\ LET done == {t \in tasks : Done(t)}
       IN  /\ tasks' = tasks \ done
           /\ bkPc' = IF \E t \in done : Failed(t) THEN "abort" ELSE "iter"
           /\ ev' = [op |-> "wait", id |-> Cardinality(done), out |-> "", pre |-> FALSE]
    /\ UNCHANGED <<gcVars, fsVars, entVars, scanVars, objVars, snapVars, readyCur, ct, nextTask,
                   snapCur, bkDirty, workVars>>

\* the inner loop is over: assert ct > 0
BackupPassEnd ==
    /\ bkPc = "iter"
    /\ readyCur = <<>>
    /\ bkPc' = IF ct > 0 THEN "check" ELSE "abort"
    /\ ev' = [op |-> "backup_pass_end", id |-> ct, out |-> "", pre |-> FALSE]
    /\ UNCHANGED <<gcVars, fsVars, entVars, scanVars, objVars, snapVars, readyCur, ct, tasks,
                   nextTask, snapCur, bkDirty, workVars>>

\* a shutdown that returns at once
Undrained == TRUE

\* shutdown(wait=True) has returned: every submitted task has run
Drained == queue = <<>> /\ w.pc = "idle"

\* the with block of the executor is left, by the end of the loop or by an
\* exception, SystemExit after a KeyboardInterrupt among them
BackupShutdown ==
    /\ bkPc \in {"shutdown", "abort", "interrupt"}
    /\ Drained
    /\ IF bkPc = "shutdown"
       THEN /\ bkPc' = "snap"
            /\ snapCur' = RootRows(entries)
            /\ ev' = [op |-> "shutdown", id |-> 0, out |-> "", pre |-> FALSE]
       ELSE /\ bkPc' = "idle"
            /\ snapCur' = <<>>
            /\ ev' = [op |-> "backup_failed", id |-> 0,
                      out |-> IF bkPc = "interrupt" THEN "KeyboardInterrupt" ELSE "",
                      pre |-> FALSE]
    /\ readyCur' = <<>>
    /\ tasks' = {}
    /\ finished' = {}
    /\ UNCHANGED <<gcVars, fsVars, entVars, scanVars, objVars, snapVars, ct, nextTask, bkDirty,
                   queue, w, faults>>

\* one turn of the loop over the roots: the Snapshot row is created on the
\* database repo.db, inside a transaction opened on the default database, and
\* put_snapshot stores it.  When put_snapshot fails the row is rolled back if
\* repo.db is the default database (covered), and is left committed if not.
BackupSnapshot(put_ok) ==
    /\ bkPc = "snap"
    /\ snapCur # <<>>
    /\ ~put_ok => faults < MaxFaults
    /\ faults' = IF put_ok THEN faults ELSE faults + 1
    /\ LET root == Head(snapCur)
           ss == [path |-> root.path, root |-> root.obj, date |-> clock]
       IN  IF root.obj = 0
           THEN /\ bkPc' = "idle"
                /\ snapCur' = <<>>
                /\ ev' = [op |-> "backup_failed", id |-> root.id, out |-> "AssertionError",
                          pre |-> FALSE]
                /\ UNCHANGED <<snapshots, remoteSnaps>>
           ELSE IF ~put_ok
           THEN /\ bkPc' = "idle"
                /\ snapCur' = <<>>
                /\ \E covered \in BOOLEAN :
                       /\ snapshots' = IF covered THEN snapshots ELSE snapshots \cup {ss}
                       /\ ev' = [op |-> "backup_failed", id |-> root.id,
                                 out |-> "put_snapshot", pre |-> covered]
                /\ UNCHANGED remoteSnaps
           ELSE /\ snapshots' = snapshots \cup {ss}
                /\ remoteSnaps' = remoteSnaps \cup {ss}
                /\ snapCur' = Tail(snapCur)
                /\ bkPc' = bkPc
                /\ ev' = [op |-> "snapshot", id |-> root.id, out |-> "", pre |-> FALSE]
    /\ UNCHANGED <<gcVars, fsVars, entVars, scanVars, objVars, clock, readyCur, ct, tasks,
                   nextTask, bkDirty, queue, finished, w>>

\* every root has its snapshot: ANALYZE, and backup() returns
BackupDone ==
    /\ bkPc = "snap"
    /\ snapCur = <<>>
    /\ bkPc' = "idle"
    /\ ev' = [op |-> "backup_done", id |-> 0, out |-> "", pre |-> FALSE]
    /\ UNCHANGED <<gcVars, fsVars, entVars, scanVars, objVars, snapVars, readyCur, ct, tasks,
                   nextTask, snapCur, bkDirty, workVars>>

\* Ctrl-C while backup() runs.  Inside the executor block the producer stops:
\* around wait() the KeyboardInterrupt is caught and sys.exit(1) is called,
\* anywhere else it propagates, and either way the block is left by an
\* exception.  After the block backup() is left at once.
Interrupt ==
    /\ bkPc \in {"check", "iter", "wait", "snap"}
    /\ IF bkPc = "snap"
       THEN /\ bkPc' = "idle"
            /\ snapCur' = <<>>
            /\ ev' = [op |-> "backup_failed", id |-> 0, out |-> "KeyboardInterrupt",
                      pre |-> FALSE]
       ELSE /\ bkPc' = "interrupt"
            /\ snapCur' = snapCur
            /\ ev' = [op |-> "interrupt", id |-> 0, out |-> "", pre |-> FALSE]
    /\ UNCHANGED <<gcVars, fsVars, entVars, scanVars, objVars, snapVars, readyCur, ct, tasks,
                   nextTask, bkDirty, workVars>>

\* the process is killed while backup() runs: what is in memory is lost, the
\* committed rows and the uploaded objects stay
Kill ==
    /\ bkPc # "idle"
    /\ bkPc' = "idle"
    /\ readyCur' = <<>>
    /\ snapCur' = <<>>
    /\ tasks' = {}
    /\ queue' = <<>>
    /\ finished' = {}
    /\ w' = WIdle
    /\ ev' = [op |-> "kill", id |-> 0, out |-> "", pre |-> FALSE]
    /\ UNCHANGED <<gcVars, fsVars, entVars, scanVars, objVars, snapVars, ct, nextTask, bkDirty, faults>>

-----------------------------------------------------------------------------
(* Object.collect_garbage and its caller *)

\* the stored objid of the k-th payload: the bytes of its digest
Digest(k) == <<k % 256, k \div 256>>

\* int.from_bytes(objid, 'little')
int_from_bytes(b) == b[1] + 256 * b[2]

\* h ^ objid_int on non-negative integers
RECURSIVE Xor(_, _)
Xor(a, b) ==
    IF a = 0 THEN b
    ELSE IF b = 0 THEN a
    ELSE (((a % 2) + (b % 2)) % 2) + 2 * Xor(a \div 2, b \div 2)

\* m = ceil(num_objects * log(p) / log(1 / 2^log(2))) with p = 0.05: the
\* quotient of the logarithms is 6.235224..
BloomM(num_objects) == (6235224 * num_objects + 999999) \div 1000000

\* k = round(log(2) * m / num_objects), log(2) = 0.693147..; num_objects > 0
BloomK(num_objects) ==
    (2 * 693147 * BloomM(num_objects) + 1000000 * num_objects)
        \div (2 * 1000000 * num_objects)

\* the recursive query: the snapshot roots and what their relations lead to
RECURSIVE Descend(_, _)
Descend(S, rels) ==
    LET more == S \cup {r[2] : r \in {x \in rels : x[1] \in S}}
    IN  IF more = S THEN S ELSE Descend(more, rels)

Reachable(rels, snaps) == Descend({sn.root : sn \in snaps}, rels)

\* a filter filled with the first salt alone
BloomFirst(reach, hashes, m) ==
    {Xor(hashes[1], int_from_bytes(Digest(o))) % m : o \in reach}

\* the bits set in the filter
Bloom(reach, hashes, m) ==
    {Xor(hashes[i], int_from_bytes(Digest(o))) % m : i \in DOMAIN hashes, o \in reach}

hash_match(h, objid, m, bloom) == (Xor(h, objid) % m) \in bloom

\* the objects collect_garbage yields, for the salts `hashes`
collect_garbage(objs, rels, snaps, hashes) ==
    LET m == BloomM(Cardinality(objs))
        bloom == Bloom(Reachable(rels, snaps), hashes, m)
    IN  {o \in objs :
            ~(\A i \in DOMAIN hashes :
                 hash_match(hashes[i], int_from_bytes(Digest(o)), m, bloom))}

\* the filter and the matches do not depend on the order of the salts: the
\* draws are taken in ascending order
Ascending(hashes) == \A i, j \in DOMAIN hashes : i < j => hashes[i] <= hashes[j]

\* collect_garbage runs up to its first yield: it counts the rows, draws the
\* salts and fills the filter; with no row the division by num_objects fails
GcCollect ==
    /\ Idle
    /\ gcRuns < MaxGc
    /\ gcRuns' = gcRuns + 1
    /\ IF objects = {}
       THEN /\ garbage' = {}
            /\ ev' = [op |-> "gc_error", id |-> 0, out |-> "ZeroDivisionError", pre |-> FALSE]
       ELSE \E hashes \in [1..BloomK(Cardinality(objects)) -> 0..MaxSalt] :
                /\ Ascending(hashes)
                /\ garbage' = collect_garbage(objects, relations, snapshots, hashes)
                /\ ev' = [op |-> "gc_collect", id |-> 0, out |-> "",
                          pre |-> \E i, j \in DOMAIN hashes : hashes[i] # hashes[j]]
    /\ UNCHANGED <<fsVars, entVars, scanVars, objVars, snapVars, prodVars, workVars>>

\* the caller deletes a yielded object: the row first, which takes its
\* relations with it (CASCADE) and clears the obj of the entries that name it
\* (SET_NULL), then the remote object; a snapshot root is protected
GcDelete(o) ==
    /\ o \in garbage
    /\ IF \E sn \in snapshots : sn.root = o
       THEN /\ garbage' = {}
            /\ ev' = [op |-> "gc_error", id |-> o, out |-> "ProtectedError", pre |-> FALSE]
            /\ UNCHANGED <<entries, objects, relations, remote>>
       ELSE /\ garbage' = garbage \ {o}
            /\ objects' = objects \ {o}
            /\ relations' = {r \in relations : r[1] # o /\ r[2] # o}
            /\ entries' = [i \in Ids(entries) |->
                              IF entries[i].obj = o THEN [entries[i] EXCEPT !.obj = 0]
                              ELSE entries[i]]
            /\ remote' = remote \ {o}
            /\ ev' = [op |-> "gc_delete", id |-> o, out |-> "", pre |-> FALSE]
    /\ UNCHANGED <<fsVars, nextId, scanVars, hashed, puts, snapVars, prodVars, workVars, gcRuns>>

-----------------------------------------------------------------------------
(* The payload codec: umsgpack.pack in backup_iterator, and the readers of
   models.Object.  A packed value carries its msgpack type: a string, an
   integer, bytes, an array or a map. *)

Str(x) == [t |-> "str", v |-> x]

Int_(n) == [t |-> "int", v |-> n]

Bin(b) == [t |-> "bin", v |-> b]

Arr(a) == [t |-> "arr", v |-> a]

Map(d) == [t |-> "map", v |-> d]

\* the packed values of a payload, in the order in which they are packed
pack(payload) ==
    CASE payload.type = "blob" ->
             <<Str("blob"), Bin(payload.imm)>>
      [] payload.type = "inode" /\ payload.tag = "immediate" ->
             <<Str("inode"), Map(payload.info),
               Arr(<<Str("immediate"), Bin(payload.imm)>>)>>
      [] payload.type = "inode" ->
             <<Str("inode"), Map(payload.info),
               Arr(<<Str("chunklist"),
                     Arr([k \in DOMAIN payload.refs |->
                            Arr(<<Int_(payload.refs[k][1]),
                                  Bin(Digest(payload.refs[k][2]))>>)])>>)>>
      [] OTHER ->
             <<Str("tree"), Map(payload.info),
               Arr([k \in DOMAIN payload.refs |->
                      Arr(<<Bin(<<payload.refs[k][1]>>),
                            Bin(Digest(payload.refs[k][2]))>>)])>>

\* Object.load_payload: the payload column is filled for every type but blob
load_payload(items) == IF items[1].v # "blob" THEN items ELSE <<>>

\* x[1] in Python: the second element of an array, the second byte of bytes;
\* an integer has no elements (TypeError)
Subscriptable(x) == x.t \in {"arr", "bin", "str"} /\ Len(x.v) >= 2

Item1(x) == IF x.t = "arr" THEN x.v[2] ELSE Int_(x.v[2])

\* for c in x: the elements of an array, the bytes of bytes as integers
Elements(x) == IF x.t = "arr" THEN x.v ELSE [k \in DOMAIN x.v |-> Int_(x.v[k])]

\* [c[1] for c in x]
Seconds(x) ==
    LET els == Elements(x)
    IN  IF \A k \in DOMAIN els : Subscriptable(els[k])
        THEN [ok |-> TRUE, children |-> [k \in DOMAIN els |-> Item1(els[k])]]
        ELSE [ok |-> FALSE, children |-> <<>>]

\* Object.calculate_children on the payload column.  ok: it returned; if not,
\* it raised TypeError
calculate_children(column) ==
    IF Len(column) = 0 THEN [ok |-> TRUE, children |-> <<>>]
    ELSE IF column[1].v = "tree" THEN Seconds(column[3])
    ELSE IF column[1].v = "inode" THEN Seconds(Item1(column[3]))
    ELSE [ok |-> TRUE, children |-> <<>>]

-----------------------------------------------------------------------------
(* The environment: the user's filesystem and the roots the user adds *)

WellFormed(F) ==
    \A p \in Paths :
        /\ F[p].kind \in {"none", "file", "dir", "other"}
        /\ F[p].kind # "none" =>
              (IF PathParent(p) = 0 THEN TRUE ELSE F[PathParent(p)].kind = "dir")
        /\ F[p].kind # "file" => F[p].content = <<>>

FileStates ==
    {NoFile}
    \cup {[kind |-> k, mtime |-> 0, content |-> <<>>, readable |-> TRUE,
            search |-> TRUE] : k \in {"dir", "other"}}
    \cup {[kind |-> "file", mtime |-> 0, content |-> c, readable |-> TRUE,
            search |-> TRUE] : c \in Contents}

RECURSIVE Below(_, _)
Below(p, q) == p # 0 /\ (p = q \/ Below(PathParent(p), q))

Bump(F, p) == IF p = 0 THEN F ELSE [F EXCEPT ![p].mtime = @ + 1]

\* the filesystem changes between two calls of the program, once a first scan
\* has seen it, and while a backup run remains to see the change
FsIdle == Idle /\ fsOps < MaxFsOps /\ nextId > 1 /\ NewIds(entries) = {} /\ clock < MaxBackups

\* a file is written: created (its directory changes too) or rewritten
FsWrite(p, c) ==
    /\ FsIdle
    /\ fs[p].kind \in {"none", "file"}
    /\ PathParent(p) # 0 /\ Exists(fs, PathParent(p)) /\ fs[PathParent(p)].kind = "dir"
    /\ fs' = [IF fs[p].kind = "none" THEN Bump(fs, PathParent(p)) ELSE fs
                EXCEPT ![p] = [kind |-> "file", mtime |-> fs[p].mtime + 1,
                               content |-> c, readable |-> TRUE,
                               search |-> TRUE]]
    /\ fsOps' = fsOps + 1
    /\ ev' = [op |-> "fs_write", id |-> p, out |-> "", pre |-> FALSE]
    /\ UNCHANGED <<gcVars, entVars, scanVars, objVars, snapVars, prodVars, workVars>>

\* a directory, or something that is neither file nor directory, is created
FsMake(p, k) ==
    /\ FsIdle
    /\ k \in {"dir", "other"}
    /\ fs[p].kind = "none"
    /\ PathParent(p) # 0 /\ Exists(fs, PathParent(p)) /\ fs[PathParent(p)].kind = "dir"
    /\ fs' = [Bump(fs, PathParent(p))
                EXCEPT ![p] = [kind |-> k, mtime |-> fs[p].mtime + 1,
                               content |-> <<>>, readable |-> TRUE,
                               search |-> TRUE]]
    /\ fsOps' = fsOps + 1
    /\ ev' = [op |-> "fs_make", id |-> p, out |-> k, pre |-> FALSE]
    /\ UNCHANGED <<gcVars, entVars, scanVars, objVars, snapVars, prodVars, workVars>>

\* a path is removed with everything below it
FsRemove(p) ==
    /\ FsIdle
    /\ Exists(fs, p)
    /\ PathParent(p) # 0
    /\ fs' = [q \in Paths |->
                IF Below(q, p) THEN [NoFile EXCEPT !.mtime = fs[q].mtime]
                ELSE IF q = PathParent(p) THEN [fs[q] EXCEPT !.mtime = @ + 1]
                ELSE fs[q]]
    /\ fsOps' = fsOps + 1
    /\ ev' = [op |-> "fs_remove", id |-> p, out |-> "", pre |-> FALSE]
    /\ UNCHANGED <<gcVars, entVars, scanVars, objVars, snapVars, prodVars, workVars>>

\* read access to a path is withdrawn or given back, by a change that the
\* compared stat fields do not show (owner, access control list)
FsChmod(p) ==
    /\ FsIdle
    /\ Exists(fs, p)
    /\ fs' = [fs EXCEPT ![p].readable = ~@]
    /\ fsOps' = fsOps + 1
    /\ ev' = [op |-> "fs_chmod", id |-> p, out |-> "", pre |-> FALSE]
    /\ UNCHANGED <<gcVars, entVars, scanVars, objVars, snapVars, prodVars, workVars>>

\* search access to a directory is withdrawn or given back, in the same way
FsLock(p) ==
    /\ FsIdle
    /\ Exists(fs, p)
    /\ fs[p].kind = "dir"
    /\ fs' = [fs EXCEPT ![p].search = ~@]
    /\ fsOps' = fsOps + 1
    /\ ev' = [op |-> "fs_lock", id |-> p, out |-> "", pre |-> FALSE]
    /\ UNCHANGED <<gcVars, entVars, scanVars, objVars, snapVars, prodVars, workVars>>

\* a directory is modified and read access to it is withdrawn
FsSeal(p) ==
    /\ FsIdle
    /\ Exists(fs, p)
    /\ fs[p].kind = "dir"
    /\ fs[p].readable
    /\ fs' = [fs EXCEPT ![p].readable = FALSE, ![p].mtime = @ + 1]
    /\ fsOps' = fsOps + 1
    /\ ev' = [op |-> "fs_seal", id |-> p, out |-> "", pre |-> FALSE]
    /\ UNCHANGED <<gcVars, entVars, scanVars, objVars, snapVars, prodVars, workVars>>

\* a directory is removed with everything below it, and a file or something
\* else is created under its name
FsReplace(p, k) ==
    /\ FsIdle
    /\ k \in {"file", "other"}
    /\ Exists(fs, p)
    /\ fs[p].kind = "dir"
    /\ PathParent(p) # 0
    /\ fs' = [q \in Paths |->
                IF q = p THEN [kind |-> k, mtime |-> fs[p].mtime + 1,
                               content |-> IF k = "file" THEN <<0>> ELSE <<>>,
                               readable |-> TRUE, search |-> TRUE]
                ELSE IF Below(q, p) THEN [NoFile EXCEPT !.mtime = fs[q].mtime]
                ELSE IF q = PathParent(p) THEN [fs[q] EXCEPT !.mtime = @ + 1]
                ELSE fs[q]]
    /\ fsOps' = fsOps + 1
    /\ ev' = [op |-> "fs_replace", id |-> p, out |-> k, pre |-> FALSE]
    /\ UNCHANGED <<gcVars, entVars, scanVars, objVars, snapVars, prodVars, workVars>>

FsChange ==
    \E p \in Paths :
        \/ \E c \in Contents : FsWrite(p, c)
        \/ \E k \in {"dir", "other"} : FsMake(p, k)
        \/ FsRemove(p)
        \/ FsChmod(p)
        \/ FsLock(p)

\* a root is added: a row with parent NULL and new = true
AddRoot(p) ==
    /\ Idle
    /\ Exists(fs, p)
    /\ \A i \in Ids(entries) : entries[i].path # p
    /\ entries' = [i \in Ids(entries) \cup {nextId} |->
                      IF i = nextId
                      THEN [path |-> p, parent |-> 0, obj |-> 0, new |-> TRUE, st |-> NoStat]
                      ELSE entries[i]]
    /\ nextId' = nextId + 1
    /\ seen' = NoSeen
    /\ ev' = [op |-> "add_root", id |-> nextId, out |-> "", pre |-> FALSE]
    /\ UNCHANGED <<gcVars, fsVars, scanPc, scanCur, scanSave, objVars, snapVars, prodVars,
                   workVars>>

-----------------------------------------------------------------------------
(* Specifications *)

InitFs ==
    /\ fs \in [Paths -> FileStates]
    /\ WellFormed(fs)
    /\ fs[1].kind = "dir"
    /\ fsOps = 0

\* the program has not run yet
InitRun ==
    /\ entries = EmptyTable
    /\ nextId = 1
    /\ scanPc = "idle"
    /\ scanCur = <<>>
    /\ scanSave = EmptyTable
    /\ seen = NoSeen
    /\ remoteSnaps = {}
    /\ hashed = <<>>
    /\ puts = <<>>
    /\ clock = 0
    /\ bkPc = "idle"
    /\ readyCur = <<>>
    /\ ct = 0
    /\ tasks = {}
    /\ queue = <<>>
    /\ finished = {}
    /\ nextTask = 1
    /\ w = WIdle
    /\ snapCur = <<>>
    /\ bkDirty = FALSE
    /\ faults = 0
    /\ garbage = {}
    /\ gcRuns = 0
    /\ ev = NoEv

InitDb ==
    /\ InitRun
    /\ objects = {}
    /\ relations = {}
    /\ snapshots = {}
    /\ remote = {}

Init == InitFs /\ InitDb

ScanSteps ==
    \/ \E b \in BOOLEAN : ScanStart(b)
    \/ ScanEntry
    \/ ScanPassEnd
    \/ ScanNewCheck

\* the scan engine: roots anywhere, scans, and a changing filesystem
NextScan ==
    \/ ScanSteps
    \/ \E p \in Paths : AddRoot(p)
    \/ FsChange

SpecScan == Init /\ [][NextScan]_vars

\* scans of the root at path 1, with a filesystem that changes and
\* directories that stop being listable
NextSeal ==
    \/ AddRoot(1)
    \/ ScanStart(FALSE)
    \/ ScanEntry
    \/ ScanPassEnd
    \/ ScanNewCheck
    \/ FsChange
    \/ \E p \in Paths : FsSeal(p)
    \/ \E p \in Paths, k \in {"file", "other"} : FsReplace(p, k)

SpecSeal == Init /\ [][NextSeal]_vars

\* the same with a scan() that goes on once it is called: the loops of scan()
\* take their next step
ScanGoesOn == WF_vars(ScanEntry) /\ WF_vars(ScanPassEnd) /\ WF_vars(ScanNewCheck)

SpecScanLive == Init /\ [][NextSeal]_vars /\ ScanGoesOn

\* scan and backup of the root at path 1, with a remote storage that works
Pipeline ==
    \/ AddRoot(1)
    \/ ScanStart(FALSE)
    \/ ScanEntry
    \/ ScanPassEnd
    \/ ScanNewCheck
    \/ BackupStart
    \/ BackupCheck
    \/ BackupSubmit
    \/ BackupWait
    \/ BackupPassEnd
    \/ BackupShutdown
    \/ BackupSnapshot(TRUE)
    \/ BackupDone
    \/ TaskStart
    \/ TaskUpload
    \/ TaskCommit

\* the remote storage fails
Faults ==
    \/ TaskUploadFail
    \/ BackupSnapshot(FALSE)

Next ==
    \/ Pipeline
    \/ FsChange

Spec == Init /\ [][Next]_vars

\* the pipeline with a failing remote storage and a process that may be killed
NextKill ==
    \/ Pipeline
    \/ Faults
    \/ Kill

SpecKill == Init /\ [][NextKill]_vars

\* the tree under path 1 is one level deep
InitShallow ==
    /\ Init
    /\ \A p \in Paths : PathParent(p) > 1 => fs[p] = NoFile

\* the pipeline with a backup() that goes on once it is called: the producer
\* takes its next step, and so does the worker thread
BackupGoesOn ==
    /\ WF_vars(BackupCheck \/ BackupSubmit \/ BackupWait \/ BackupPassEnd
                  \/ BackupShutdown \/ BackupSnapshot(TRUE) \/ BackupDone)
    /\ WF_vars(TaskStart \/ TaskUpload \/ TaskCommit)

SpecBackupLive == InitShallow /\ [][Pipeline]_vars /\ BackupGoesOn

\* the pipeline with roots anywhere
NextRoots ==
    \/ Pipeline
    \/ \E p \in Paths : AddRoot(p)

SpecRoots == InitShallow /\ [][NextRoots]_vars

\* the pipeline with a user who may interrupt backup()
NextInterrupt ==
    \/ Pipeline
    \/ Interrupt

SpecInterrupt == Init /\ [][NextInterrupt]_vars

\* the pipeline with roots anywhere, over trees of any depth
SpecDeep == Init /\ [][NextRoots]_vars

\* the pipeline with roots anywhere, a put_snapshot that may fail and the
\* garbage collector
NextGC ==
    \/ NextRoots
    \/ BackupSnapshot(FALSE)
    \/ GcCollect
    \/ \E o \in garbage : GcDelete(o)

SpecGC == InitShallow /\ [][NextGC]_vars

\* collect_garbage alone, on the object graphs over 1..MaxObjects: relations
\* lead from an object to objects hashed before it
InitCollect ==
    /\ fs = [p \in Paths |-> IF p = 1 THEN [NoFile EXCEPT !.kind = "dir"] ELSE NoFile]
    /\ fsOps = 0
    /\ InitRun
    /\ objects \in SUBSET (1..MaxObjects)
    /\ relations \in SUBSET {r \in objects \X objects : r[2] < r[1]}
    /\ \E roots \in SUBSET objects :
           snapshots = {[path |-> 1, root |-> o, date |-> 1] : o \in roots}
    /\ remote = objects

NextCollect ==
    \/ GcCollect
    \/ \E o \in garbage : GcDelete(o)

SpecCollect == InitCollect /\ [][NextCollect]_vars

\* collect_garbage on tables of MaxObjects + 1 objects, one of them with any
\* objid up to MaxObjid: an objid is a digest, and takes any value
InitDigests ==
    /\ fs = [p \in Paths |-> IF p = 1 THEN [NoFile EXCEPT !.kind = "dir"] ELSE NoFile]
    /\ fsOps = 0
    /\ InitRun
    /\ \E x \in (MaxObjects + 1)..MaxObjid : objects = (1..MaxObjects) \cup {x}
    /\ relations \in SUBSET {r \in (1..3) \X (1..3) : r[2] < r[1]}
    /\ \E roots \in SUBSET objects :
           snapshots = {[path |-> 1, root |-> o, date |-> 1] : o \in roots}
    /\ remote = objects

SpecDigests == InitDigests /\ [][NextCollect]_vars

-----------------------------------------------------------------------------
(* The claims *)

\* every ancestor of row i, up to its root, has obj = null
AncestorsDirty(E, i) ==
    \A a \in AncestorIds(E, i, Cardinality(Ids(E))) : E[a].obj = 0

\* C1: once FSEntry.scan() has processed an entry that was new or whose
\* stored stat fields differed from the ones on disk, the entry and every
\* ancestor up to its root have obj = null.
C1_ScanInvalidates ==
    (ev.op = "scan_entry" /\ ev.pre) =>
        (ev.id \in Ids(entries) /\ AncestorsDirty(entries, ev.id))

\* a rewritten file two levels below the root has been scanned after a backup
\* run that ended with a snapshot: its directory kept its stat fields
C1_Witness ==
    /\ ev.op = "scan_entry" /\ ev.pre
    /\ snapshots # {}
    /\ ev.id \in Ids(entries)
    /\ LET p == entries[ev.id].path
       IN  /\ PathParent(PathParent(p)) # 0
           /\ fs[p].mtime = 1
           /\ fs[PathParent(p)].mtime = 0
           /\ entries[ev.id].parent # 0

\* C2: in every state reached by scans, backup_entry completions and
\* deletions of Object rows, once the operation under way has ended, an
\* FSEntry with obj = null has only ancestors with obj = null (F5).
C2_DirtyUpward ==
    Idle =>
        \A i \in Ids(entries) :
            entries[i].obj = 0 => AncestorsDirty(entries, i)

\* C3: when backup_entry returns, whatever the kind of the entry, its row is
\* deleted or its obj names an Object row; obj is not left null on a row.
C3_ExitContract ==
    ev.op = "task_return" =>
        (ev.id \notin Ids(entries)
         \/ (entries[ev.id].obj # 0 /\ entries[ev.id].obj \in objects))

\* backup_entry has returned for a chunked file, whose row names its inode
C3_Witness ==
    /\ ev.op = "task_return"
    /\ ev.id \in Ids(entries)
    /\ entries[ev.id].st[1] = "file"
    /\ entries[ev.id].st[3] >= InlineThreshold
    /\ entries[ev.id].obj \in objects

\* C4: a directory is submitted to backup_entry only when each of its child
\* rows has a non-null obj, and no interleaving of the producer and the worker
\* reaches the DependencyError of backup_iterator.
C4_ChildrenFirst ==
    /\ ev.op = "submit" =>
          \A c \in ChildrenOf(entries, ev.id) : entries[c].obj # 0
    /\ ~(ev.op = "task_raise" /\ ev.out = "DependencyError")

\* the worker has started on a directory that has two child rows while the
\* producer is still in its loop, and the directory yields its tree
C4_Witness ==
    /\ ev.op = "task_start" /\ ev.out = "tree"
    /\ Cardinality(ChildrenOf(entries, ev.id)) = 2
    /\ bkPc \in {"iter", "wait"}

\* C6: within one backup run no objid is uploaded twice, however often its
\* payload is admitted, and no payload is given two objids.
C6_OnePutPerObjid ==
    /\ ~HasDuplicates(puts)
    /\ ~HasDuplicates(hashed)

\* a payload was admitted a second time in a run that had uploaded it
C6_Witness ==
    /\ ev.op = "admit_existing"
    /\ ev.out = "blob"
    /\ Len(puts) >= 1
    /\ \E k \in DOMAIN puts : hashed[puts[k]].type = "blob"

\* C9: a scan of a filesystem that has not changed since the last complete
\* scan, with or without backup runs in between, writes no FSEntry row.
C9_SecondScanWritesNothing ==
    [][(scanPc # "idle" /\ seen = fs) => (entries' = entries /\ nextId' = nextId)]_vars

\* the scan that follows a backup run with no change in between has gone
\* through all the rows of a tree of three entries or more
C9_Witness ==
    /\ scanPc = "first" /\ seen = fs
    /\ scanCur = <<>>
    /\ ev.op = "scan_entry"
    /\ snapshots # {}
    /\ Cardinality(Ids(entries)) >= 3

\* C5: in every state, also after a failed upload or a kill at any step, each
\* Object row has its payload in the remote storage under its objid.
C5_RowImpliesRemote == objects \subseteq remote

\* the process was killed between the upload of a payload and the commit of
\* its row, while other rows were committed: the remote holds an orphan
C5_Witness ==
    /\ ev.op = "kill"
    /\ objects # {}
    /\ remote \ objects # {}

\* the snapshots of the current backup run
NewSnapshots == {sn \in snapshots : sn.date = clock}

\* one snapshot for each root row, of its path and its obj, dated by the run
SnapshotPerRoot ==
    /\ \A r \in Roots(entries) : entries[r].obj # 0
    /\ NewSnapshots = {[path |-> entries[r].path, root |-> entries[r].obj, date |-> clock] :
                          r \in Roots(entries)}
    /\ Cardinality(NewSnapshots) = Cardinality(Roots(entries))

\* C8: a backup run that ends leaves to_backup empty; a run that finds
\* to_backup empty submits no backup_entry, changes no Object, ObjectRelation
\* or FSEntry row and uploads nothing, and ends with one new snapshot for
\* each root.
C8_SecondRunNoOp ==
    /\ [](ev.op = "backup_done" => ToBackup(entries) = {})
    /\ [][(bkPc # "idle" /\ ~bkDirty) =>
             /\ entries' = entries
             /\ objects' = objects
             /\ relations' = relations
             /\ remote' = remote
             /\ queue' = queue
             /\ nextTask' = nextTask]_vars
    /\ []((ev.op = "backup_done" /\ ~bkDirty) => SnapshotPerRoot)

\* the second of two backup runs in a row has ended: it found nothing to back
\* up in a table of two roots, and the snapshots of both runs are there
C8_Witness ==
    /\ ev.op = "backup_done" /\ ~bkDirty
    /\ clock = 2
    /\ objects # {}
    /\ Cardinality(Roots(entries)) = 2
    /\ Cardinality(snapshots) = 4

\* a backup run that ends without error has made one snapshot for each root,
\* none before to_backup was empty and every submitted task had finished, and
\* each put_snapshot that returned has its row
SnapshotsAtTheEnd ==
    /\ ev.op = "backup_done" => SnapshotPerRoot
    /\ bkPc \in {"check", "iter", "wait", "shutdown", "abort"} => NewSnapshots = {}
    /\ bkPc = "snap" => (ToBackup(entries) = {} /\ queue = <<>> /\ w.pc = "idle")
    /\ remoteSnaps \subseteq snapshots

\* C10: a backup run makes one snapshot for each root once every task has
\* finished (SnapshotsAtTheEnd), and a Snapshot row is committed only if
\* put_snapshot succeeded: each row has its snapshot in the remote storage.
C10_RowOnlyIfStored == snapshots \subseteq remoteSnaps

\* C7: whatever the object graph, the snapshots and the salts, no object
\* that collect_garbage yields is a snapshot root or reachable from one along
\* the relations.
C7_NeverYieldsReachable == garbage \cap Reachable(relations, snapshots) = {}

\* collect_garbage has run with salts that differ, on a graph where a root
\* leads to other objects: it yielded an unreachable object and kept another
C7_Witness ==
    /\ ev.op = "gc_collect" /\ ev.pre
    /\ garbage # {}
    /\ \E sn \in snapshots : \E r \in relations : r[1] = sn.root
    /\ (objects \ Reachable(relations, snapshots)) \ garbage # {}

\* C11: a call of backup() while some FSEntry has new = true ends with an
\* error before anything is submitted, and creates or changes no Object,
\* ObjectRelation, Snapshot or FSEntry row.
C11_ScanNotRun ==
    [][(/\ Idle
        /\ \E i \in Ids(entries) : entries[i].new
        /\ ev'.op \in {"backup_start", "backup_error"})
       => (/\ ev'.op = "backup_error"
           /\ bkPc' = "idle"
           /\ queue' = queue
           /\ nextTask' = nextTask
           /\ entries' = entries
           /\ objects' = objects
           /\ relations' = relations
           /\ snapshots' = snapshots)]_vars

\* backup() has refused to run: a root was added, and not scanned, after a
\* backup run that made objects and a snapshot
C11_Witness ==
    /\ ev.op = "backup_error"
    /\ objects # {}
    /\ snapshots # {}
    /\ \E i \in Ids(entries) : entries[i].new /\ entries[i].parent = 0

\* the objids a payload refers to, in the order of the payload
Referenced(payload) == [k \in DOMAIN payload.refs |-> Digest(payload.refs[k][2])]

\* calculate_children returns, and returns the objids the payload refers to
ChildrenRead(payload) ==
    LET r == calculate_children(load_payload(pack(payload)))
    IN  /\ r.ok
        /\ Len(r.children) = Len(payload.refs)
        /\ \A j \in DOMAIN r.children :
               /\ r.children[j].t = "bin"
               /\ r.children[j].v = Referenced(payload)[j]

\* C12: for every payload backup_iterator has produced, calculate_children
\* returns the child objids the payload refers to, in the order of the
\* payload: those of the tree, those of the chunklist, and none for an inode
\* with immediate content and for a blob.
C12_ChildrenOfPayload == \A k \in DOMAIN hashed : ChildrenRead(hashed[k])

\* calculate_children returns the referenced objids for every tree, every
\* inode with a chunklist and every blob that backup_iterator has produced
ChildrenOfOtherPayloads ==
    \A k \in DOMAIN hashed : hashed[k].tag # "immediate" => ChildrenRead(hashed[k])

\* row i is a regular file whose obj was made from what is on disk now
BackedFile(i) ==
    /\ entries[i].obj # 0
    /\ Exists(fs, entries[i].path)
    /\ fs[entries[i].path].kind = "file"
    /\ entries[i].st = Stat(fs, entries[i].path)

\* two backed up files with the same content in different directories
Twins(i, j) ==
    /\ i # j
    /\ BackedFile(i) /\ BackedFile(j)
    /\ fs[entries[i].path].content = fs[entries[j].path].content
    /\ entries[i].parent # entries[j].parent

Inlined(i) == Len(fs[entries[i].path].content) < InlineThreshold

\* the blob objids of the chunklist of row i's inode
BlobsOf(i) ==
    LET refs == hashed[entries[i].obj].refs
    IN  [k \in DOMAIN refs |-> refs[k][2]]

\* the directories of the two rows, where both are backed up, have two trees
TreesDiffer(i, j) ==
    LET a == entries[i].parent
        b == entries[j].parent
    IN  (a # 0 /\ b # 0 /\ entries[a].obj # 0 /\ entries[b].obj # 0)
            => entries[a].obj # entries[b].obj

\* C13: two regular files with the same content in different directories
\* share one inode Object when both are inlined and the same blob Objects
\* when both are chunked, and the trees of their directories differ.
C13_SharedObjects ==
    \A i, j \in Ids(entries) :
        Twins(i, j) =>
            /\ Inlined(i) => entries[i].obj = entries[j].obj
            /\ ~Inlined(i) => BlobsOf(i) = BlobsOf(j)
            /\ TreesDiffer(i, j)

\* C13, amended: two such files, which have two inode numbers, share the
\* same blob Objects when both are chunked, and have an inode Object each,
\* with the same immediate content when both are inlined; the trees of their
\* directories differ.
C13_SharedBlobs ==
    \A i, j \in Ids(entries) :
        Twins(i, j) =>
            /\ entries[i].obj # entries[j].obj
            /\ Inlined(i) =>
                  /\ hashed[entries[i].obj].tag = "immediate"
                  /\ hashed[entries[j].obj].tag = "immediate"
                  /\ hashed[entries[i].obj].imm = hashed[entries[j].obj].imm
            /\ ~Inlined(i) =>
                  /\ hashed[entries[i].obj].tag = "chunklist"
                  /\ BlobsOf(i) = BlobsOf(j)
                  /\ \A k \in DOMAIN BlobsOf(i) : BlobsOf(i)[k] \in objects
            /\ TreesDiffer(i, j)

\* two chunked files with the same two chunks, in two directories that are
\* backed up as well
C13_Witness ==
    \E i, j \in Ids(entries) :
        /\ Twins(i, j)
        /\ ~Inlined(i)
        /\ Len(BlobsOf(i)) = 2
        /\ BlobsOf(i)[1] # BlobsOf(i)[2]
        /\ entries[entries[i].parent].obj # 0
        /\ entries[entries[j].parent].obj # 0

\* C14: backup_entry inlines a regular file of size s exactly when
\* s < inline_threshold: the one payload it hands to admission is then an
\* inode with the immediate content, and no blob; when s >= inline_threshold,
\* the threshold included, it hands over blobs and then an inode with their
\* chunklist, never immediate content; and the obj it returns with is that
\* inode.
C14_InlineThreshold ==
    /\ IF w.pc = "idle" \/ w.payload.type = "tree" THEN TRUE
       ELSE IF w.info[1] < InlineThreshold
       THEN /\ w.payload.type = "inode"
            /\ w.payload.tag = "immediate"
            /\ w.payload.imm = fs[w.e.path].content
            /\ w.final
            /\ w.relations = <<>>
            /\ w.chunk_list = <<>>
       ELSE /\ w.payload.tag # "immediate"
            /\ \/ w.payload.type = "blob" /\ ~w.final
               \/ /\ w.payload.type = "inode"
                  /\ w.payload.tag = "chunklist"
                  /\ w.final
                  /\ w.payload.refs # <<>>
                  /\ \A k \in DOMAIN w.payload.refs :
                         hashed[w.payload.refs[k][2]].type = "blob"
    /\ IF ev.op = "task_return" /\ ev.id \in Ids(entries)
       THEN entries[ev.id].st[1] = "file" =>
               LET o == hashed[entries[ev.id].obj]
               IN  /\ o.type = "inode"
                   /\ o.info[1] = entries[ev.id].st[3]
                   /\ (o.tag = "immediate") <=> (entries[ev.id].st[3] < InlineThreshold)
                   /\ o.tag = "immediate" => o.refs = <<>>
       ELSE TRUE

\* backup_entry has returned for a file whose size is the threshold: its inode
\* has a chunklist; a smaller file was inlined in the same run
C14_Witness ==
    /\ ev.op = "task_return"
    /\ ev.id \in Ids(entries)
    /\ entries[ev.id].st[1] = "file"
    /\ entries[ev.id].st[3] = InlineThreshold
    /\ hashed[entries[ev.id].obj].tag = "chunklist"
    /\ \E i \in Ids(entries) :
           /\ entries[i].obj # 0
           /\ hashed[entries[i].obj].tag = "immediate"

\* the number of windows of ChunkSize bytes in a content, and the k-th one
NumChunks(content) == (Len(content) + ChunkSize - 1) \div ChunkSize

ChunkAt(content, k) ==
    SubSeq(content, (k - 1) * ChunkSize + 1, Min(k * ChunkSize, Len(content)))

\* the first n chunks of the file have been admitted in the order of their
\* offsets: the chunk list names, offset by offset, the committed blob of each
Admitted(cl, content, n) ==
    /\ Len(cl) = n
    /\ \A k \in 1..n :
           /\ cl[k][1] = (k - 1) * ChunkSize
           /\ cl[k][2] \in objects
           /\ cl[k][2] \in DOMAIN hashed
           /\ hashed[cl[k][2]] = BlobPayload(ChunkAt(content, k))

\* C15: for a chunked file each chunk's blob is admitted, one per chunk in
\* ascending offset order, before the inode that refers to it; the chunklist
\* of the inode holds one (offset, objid) per chunk in ascending offset order,
\* the objid being the one the admission of the chunk returned; the inode is
\* the last object admitted for the entry.
C15_BlobsBeforeInode ==
    IF w.pc = "idle" \/ w.payload.type = "tree" \/ w.payload.tag = "immediate"
    THEN TRUE
    ELSE LET content == fs[w.e.path].content
         IN  IF w.payload.type = "blob"
             THEN /\ ~w.final
                  /\ Admitted(w.chunk_list, content, Len(w.chunk_list))
                  /\ Len(w.chunk_list) < NumChunks(content)
                  /\ w.payload = BlobPayload(ChunkAt(content, Len(w.chunk_list) + 1))
             ELSE /\ w.final
                  /\ w.chunks = <<>>
                  /\ w.payload.refs = w.chunk_list
                  /\ Admitted(w.chunk_list, content, NumChunks(content))
                  /\ w.relations = [k \in DOMAIN w.chunk_list |-> w.chunk_list[k][2]]

\* the inode of a file of two different chunks is uploaded, after its two
\* blobs were committed
C15_Witness ==
    /\ w.pc = "commit"
    /\ w.final
    /\ w.payload.tag = "chunklist"
    /\ Len(w.payload.refs) = 2
    /\ w.payload.refs[1][2] # w.payload.refs[2][2]

\* what the relations lead to from the children of object o
Descendants(o) == Descend({r[2] : r \in {x \in relations : x[1] = o}}, relations)

\* C16: after any admissions by backup the ObjectRelation graph is acyclic:
\* the child of every relation is an Object that was hashed and committed
\* before its parent was hashed (objids are numbered in the order of hashing),
\* and no Object is reachable from itself.
C16_Acyclic ==
    /\ \A r \in relations :
           /\ r[1] \in objects /\ r[2] \in objects
           /\ r[2] < r[1]
    /\ \A o \in objects : o \notin Descendants(o)

\* a tree that leads to a tree that leads to an inode that leads to a blob
C16_Witness ==
    \E a, b, c \in relations :
        /\ a[2] = b[1] /\ b[2] = c[1]
        /\ hashed[a[1]].type = "tree"
        /\ hashed[b[1]].type = "tree"
        /\ hashed[c[2]].type = "blob"

\* the child rows of directory row d, as the database has them now
ChildRows(d) == Rows(entries, {i \in Ids(entries) : entries[i].parent = d})

\* the (name, objid) list and the relation list that match the child rows
NamesOfRows(kids) == [k \in DOMAIN kids |-> <<NameOf(kids[k].path), kids[k].obj>>]

ObjsOfRows(kids) == [k \in DOMAIN kids |-> kids[k].obj]

\* C17: the (name, objid) list in the payload of every tree backup_entry
\* hands to admission, and the children of the relations yielded with it, are
\* those of the child rows the directory has in the database when it is
\* processed, each with its obj; a child deleted earlier in the run is not
\* referenced; and the directory returns with that tree as its obj.
C17_TreeMatchesChildren ==
    /\ IF w.pc # "idle" /\ w.payload.type = "tree"
       THEN LET kids == ChildRows(w.eid)
            IN  /\ \A k \in DOMAIN kids : kids[k].obj # 0 /\ kids[k].obj \in objects
                /\ w.payload.refs = NamesOfRows(kids)
                /\ w.relations = ObjsOfRows(kids)
                /\ w.final
       ELSE TRUE
    /\ IF ev.op = "task_return" /\ ev.id \in Ids(entries)
       THEN entries[ev.id].st[1] = "dir" =>
               /\ hashed[entries[ev.id].obj].type = "tree"
               /\ hashed[entries[ev.id].obj].refs = NamesOfRows(ChildRows(ev.id))
       ELSE TRUE

\* the tree of a directory is uploaded in a run that deleted the row of a file
\* of that directory, which had vanished after the scan; the tree names the
\* child that is left
C17_Witness ==
    /\ w.pc = "commit"
    /\ w.payload.type = "tree"
    /\ w.payload.refs # <<>>
    /\ DOMAIN seen = Paths
    /\ \E p \in Paths :
           /\ PathParent(p) = w.e.path
           /\ seen[p].kind = "file"
           /\ fs[p].kind = "none"
           /\ \A i \in Ids(entries) : entries[i].path # p

\* os.lstat, then the open and the read of a regular file, succeed on path p
Accessible(F, p) ==
    /\ ~Denied(F, p)
    /\ Exists(F, p)
    /\ F[p].kind = "file" => F[p].readable

\* backup_entry is over for a row that is still in the table
EntryOver == ev.op \in {"task_return", "task_raise"} /\ ev.id \in Ids(entries)

\* when the path of an entry is missing, or its file cannot be opened,
\* backup_entry deletes the row and returns
MissingOrUnreadableDeleted ==
    IF EntryOver
    THEN ~Denied(fs, entries[ev.id].path) => Accessible(fs, entries[ev.id].path)
    ELSE TRUE

\* C18: when the lstat, the open or the read of E.path fails during
\* backup_entry(E), the path being missing or permission being denied,
\* backup_entry deletes E and returns: no task raises for it, so that backup()
\* is not aborted, and a row that is left after backup_entry has a path that
\* could be read.
C18_FsFailuresRecovered ==
    /\ ~(ev.op = "task_raise" /\ ev.out = "PermissionError")
    /\ IF EntryOver THEN Accessible(fs, entries[ev.id].path) ELSE TRUE

\* the entries whose backup_entry raised in the run that is going on
FailedEntries == {f.eid : f \in {g \in finished : ~g.ok}}

\* backup() is past its loop: the executor is left, the snapshots are made
PastTheLoop == bkPc \in {"shutdown", "snap"}

\* backup() with a task that raised never gets past its loop, and leaves by
\* raising
FailureSurfaces ==
    [][/\ FailedEntries' # {} =>
            /\ ~PastTheLoop'
            /\ \A s \in snapshots' : s.date # clock'
       /\ (FailedEntries # {} /\ FailedEntries' = {}) =>
            ev'.op \in {"backup_failed", "kill"}]_vars

\* C19: when a backup_entry task raises, backup() raises to its caller and
\* creates no Snapshot in that run, and the obj of the entry whose task
\* raised stays null until backup() has raised.
C19_FailedEntryStaysDirty ==
    [][/\ FailedEntries' # {} =>
            /\ ~PastTheLoop'
            /\ \A s \in snapshots' : s.date # clock'
            /\ \A i \in FailedEntries' \cap Ids(entries') : entries'[i].obj = 0
       /\ (FailedEntries # {} /\ FailedEntries' = {}) =>
            ev'.op \in {"backup_failed", "kill"}]_vars

\* the step is scan() of a directory that is new or changed and whose
\* os.listdir raises PermissionError
ListingDenied ==
    /\ scanCur # <<>>
    /\ ev'.op = "scan_entry"
    /\ ev'.out = "updated"
    /\ fs[Head(scanCur).path].kind = "dir"
    /\ ~fs[Head(scanCur).path].readable

\* a scan() whose listing is denied creates no row
DeniedListingCreatesNothing ==
    [][ListingDenied => Ids(entries') \subseteq Ids(entries)]_vars

\* C20: when os.listdir of a changed or new directory raises PermissionError
\* in FSEntry.scan(), the rows below the directory stay in the table: that
\* scan() deletes no row and creates none.
C20_ChildrenKept ==
    [][ListingDenied => Ids(entries') = Ids(entries)]_vars

\* paths are unique, the path of a child is the path of its parent and one
\* name, and every row leads to a root by its parent pointers
Forest(E) ==
    /\ \A i, j \in Ids(E) : E[i].path = E[j].path => i = j
    /\ \A i \in Ids(E) :
           E[i].parent # 0 =>
               /\ E[i].parent \in Ids(E)
               /\ PathParent(E[i].path) = E[E[i].parent].path
    /\ \A i \in Ids(E) : \E r \in Ids(E) :
           E[r].parent = 0 /\ Under(E, i, r, Cardinality(Ids(E)))

\* the rows that have the path of a name that scan() of the row at the head
\* of the cursor lists in its directory without having it as a child
Rediscovered ==
    IF scanCur = <<>> THEN {}
    ELSE LET self == Head(scanCur)
         IN  {r \in Ids(entries) :
                /\ self.id \in Ids(entries)
                /\ PathParent(entries[r].path) = self.path
                /\ entries[r].parent # self.id
                /\ ~Denied(fs, self.path)
                /\ Exists(fs, entries[r].path)
                /\ fs[self.path].kind = "dir"
                /\ fs[self.path].readable
                /\ self.new \/ ~compare_stat_info(self, Stat(fs, self.path))}

\* C21: when scan() of a directory lists a name whose path has a row already,
\* a root row is re-parented under the directory and keeps its id, its obj and
\* the rows below it, and no second row gets the path; a row that is not a
\* root makes the scan abort.  Paths stay unique, the path of a child is its
\* parent's path and one name, and the rows form a forest.
C21_Reparented ==
    /\ [][ev'.op \in {"scan_entry", "scan_error"} =>
            \A r \in Rediscovered :
                IF entries[r].parent = 0
                THEN /\ ev'.op = "scan_entry"
                     /\ r \in Ids(entries')
                     /\ entries'[r] = [entries[r] EXCEPT !.parent = Head(scanCur).id]
                     /\ \A j \in EveryRowBelow(entries, r) :
                            j \in Ids(entries') /\ entries'[j] = entries[j]
                ELSE ev'.op = "scan_error"]_vars
    /\ []Forest(entries)

\* a root that was backed up, with a row below it, has just been found by the
\* scan of the directory above it and hangs below that directory's row
C21_Witness ==
    /\ ev.op = "scan_entry"
    /\ \E r \in Ids(entries) :
           /\ entries[r].parent = ev.id
           /\ r < ev.id
           /\ entries[r].obj # 0
           /\ ChildrenOf(entries, r) # {}

\* the step with which backup() is left after a KeyboardInterrupt
InterruptedExit == ev'.op = "backup_failed" /\ ev'.out = "KeyboardInterrupt"

\* once interrupted the producer submits nothing, and backup() is left when
\* every submitted task is over; the entries of the tasks that returned are
\* deleted or have their obj, and are not ready to back up
InterruptDrains ==
    /\ bkPc = "interrupt" => (nextTask' = nextTask /\ tasks' \subseteq tasks)
    /\ InterruptedExit =>
          /\ queue' = <<>>
          /\ w'.pc = "idle"
          /\ bkPc = "interrupt" => \A t \in 1..(nextTask - 1) : Done(t)
          /\ \A f \in finished :
                 (f.ok /\ f.eid \in Ids(entries')) =>
                     /\ entries'[f.eid].obj # 0
                     /\ f.eid \notin ReadyToBackup(entries')

C23_Throttle ==
    /\ [](Cardinality(tasks) <= max_workers + 1)
    /\ [][ev'.op = "submit" => Cardinality(tasks) <= max_workers]_vars
    /\ []((bkPc = "wait" /\ Cardinality(tasks) <= max_workers) => ENABLED BackupWait)
    /\ [][(ev'.op = "wait" /\ Cardinality(tasks) > max_workers) =>
             (ev'.id >= 1 /\ Cardinality(tasks') < Cardinality(tasks))]_vars

\* the producer holds max_workers + 1 futures and has to wait: none is done
C23_Witness ==
    /\ bkPc = "wait"
    /\ Cardinality(tasks) = max_workers + 1
    /\ \A t \in tasks : ~Done(t)

\* the draws of salts that a run of collect_garbage may make on the table
SaltDraws == [1..BloomK(Cardinality(objects)) -> 0..MaxSalt]

\* the objects that no snapshot root leads to
Unreachable == objects \ Reachable(relations, snapshots)

\* C24: on a static object graph, runs of collect_garbage with fresh salts,
\* each yielded object being deleted, get to every object that no snapshot
\* root leads to: as long as such an object is left, some draw of the salts
\* makes collect_garbage yield one, so that none is kept under every draw.
C24_GarbageCollectable ==
    Unreachable # {} =>
        \E hashes \in SaltDraws :
            collect_garbage(objects, relations, snapshots, hashes) # {}

\* C25: scan() terminates; the assertion of the new-rows loop never fails
\* (a scan that is left by an exception is left by one of FSEntry.scan());
\* and when scan() returns no row has new = true.
C25_ScanTerminates ==
    /\ (scanPc # "idle") ~> (scanPc = "idle")
    /\ [](ev.op = "scan_error" => ev.out = "abort")
    /\ [](ev.op = "scan_done" => \A i \in Ids(entries) : ~entries[i].new)

\* scan() has returned after a pass over the new rows of the root and one
\* over those of a directory below it
C25_Witness ==
    /\ ev.op = "scan_done"
    /\ \E i, j \in Ids(entries) :
           /\ entries[i].parent # 0
           /\ entries[j].parent = i
           /\ ~entries[j].new

\* some row is ready to back up whenever a row is left to back up
ReadyWheneverDirty == ToBackup(entries) # {} => ReadyToBackup(entries) # {}

\* C26: whenever some row has obj null, some row with obj null has no child
\* with obj null; the assertion ct > 0 never fails; backup() ends, by an
\* exception only if a task raised, and otherwise with no row left to back up.
C26_BackupTerminates ==
    /\ []ReadyWheneverDirty
    /\ [](ev.op = "backup_pass_end" => ev.id > 0)
    /\ [][ev'.op = "backup_failed" => FailedEntries # {}]_vars
    /\ [](ev.op = "backup_done" => ToBackup(entries) = {})
    /\ (bkPc # "idle") ~> (bkPc = "idle")

\* a backup run that had the root and the two rows below it to back up has
\* ended without error
C26_Witness ==
    /\ ev.op = "backup_done"
    /\ bkDirty
    /\ \E i, j \in Ids(entries) : i # j /\ entries[i].parent # 0 /\ entries[j].parent # 0

\* every row has a path that exists, and a parent row, if any, that is there
\* and is a directory, on disk and by its stat fields
TableMatchesDisk ==
    \A i \in Ids(entries) :
        /\ Exists(fs, entries[i].path)
        /\ entries[i].parent # 0 =>
               /\ entries[i].parent \in Ids(entries)
               /\ fs[entries[entries[i].parent].path].kind = "dir"
               /\ entries[entries[i].parent].st[1] = "dir"

\* C27: when a scan of every row has returned, no row is left whose path
\* does not exist, none whose parent row is gone and none whose parent is
\* not a directory; and a row never goes without every row below it.
C27_NoStaleRows ==
    /\ [](ev.op = "scan_done" => TableMatchesDisk)
    /\ [][\A i \in Ids(entries) \ Ids(entries') :
             \A j \in Ids(entries) :
                 Under(entries, j, i, Cardinality(Ids(entries))) => j \notin Ids(entries')]_vars

\* a scan has returned which found a file where a directory with a row
\* below it had been: the rows below are gone, the row of the path is a file
C27_Witness ==
    /\ ev.op = "scan_done"
    /\ \E i \in Ids(entries) :
           /\ fs[entries[i].path].kind # "dir"
           /\ entries[i].st[1] # "dir"
           /\ entries[i].parent # 0
           /\ \E j \in 1..(nextId - 1) : j > i /\ j \notin Ids(entries)

\* the names in the tree payload of object o
TreeNames(o) == {hashed[o].refs[k][1] : k \in DOMAIN hashed[o].refs}

\* the directory rows that count as backed up although their tree names an
\* entry that has no row
StaleTrees ==
    {d \in Ids(entries) :
        /\ entries[d].obj # 0
        /\ hashed[entries[d].obj].type = "tree"
        /\ ~(TreeNames(entries[d].obj)
                \subseteq {NameOf(entries[c].path) : c \in ChildrenOf(entries, d)})}

\* C28: when scan() has deleted the row of a path that vanished, the rows
\* above it have obj = null when scan() returns: no directory is left that
\* counts as backed up with a tree that names the vanished entry.
C28_AncestorsOfVanishedDirty == ev.op = "scan_done" => StaleTrees = {}

\* a step of backup() or of one of its tasks
BackupStep == bkPc # "idle"

\* backup() creates no row of FSEntry and leaves path, parent and new of
\* each row it does not delete
BackupKeepsPlace ==
    [][BackupStep =>
          /\ Ids(entries') \subseteq Ids(entries)
          /\ \A i \in Ids(entries') :
                 /\ entries'[i].path = entries[i].path
                 /\ entries'[i].parent = entries[i].parent
                 /\ entries'[i].new = entries[i].new]_vars

\* C29: of the rows of FSEntry backup() writes the obj field alone: it
\* creates no row, and in each row that it does not delete it leaves path,
\* parent, new and the stat fields st_mode, st_mtime_ns and st_size.
C29_BackupWritesObjOnly ==
    [][BackupStep =>
          /\ Ids(entries') \subseteq Ids(entries)
          /\ \A i \in Ids(entries') :
                 entries'[i] = [entries[i] EXCEPT !.obj = entries'[i].obj]]_vars

\* the paths in directory p that backup_entry keeps a row for: directories,
\* and regular files that can be read
Kept(F, p) ==
    {q \in ListDir(F, p) : F[q].kind = "dir" \/ (F[q].kind = "file" /\ F[q].readable)}

\* the rows of directories that can be listed
ListableRows ==
    {d \in Ids(entries) :
        /\ Exists(fs, entries[d].path)
        /\ fs[entries[d].path].kind = "dir"
        /\ fs[entries[d].path].readable}

\* C30: a change of a directory between its scan and its backup is not
\* hidden from the next scan: when a scan of every row has returned, each
\* name that a directory with a row holds has its row, and each row below a
\* directory has its name on disk.
C30_ChangeNotMasked ==
    ev.op = "scan_done" =>
        \A d \in ListableRows :
            /\ \A q \in Kept(fs, entries[d].path) :
                   \E c \in ChildrenOf(entries, d) : entries[c].path = q
            /\ \A c \in ChildrenOf(entries, d) :
                   entries[c].path \in ListDir(fs, entries[d].path)

\* the backup_entry tasks of the running backup(), each with the id of its
\* entry: those in the executor's queue, the one the worker runs, and those
\* that are done
TasksOfRun ==
    {<<queue[k].t, queue[k].e.id>> : k \in DOMAIN queue}
        \cup (IF w.pc # "idle" THEN {<<w.t, w.eid>>} ELSE {})
        \cup {<<f.t, f.eid>> : f \in finished}

\* C31: within one backup() run backup_entry is submitted at most once for an
\* FSEntry: no two tasks of the run are for the same entry.
C31_SubmittedOnce ==
    \A a, b \in TasksOfRun : a[2] = b[2] => a[1] = b[1]

\* C32: the list of ObjectRelations that backup_iterator yields for one
\* parent does not name a child Object twice, whether the parent is the inode
\* of a chunked file or the tree of a directory.
C32_RelationsDistinct ==
    w.pc \in {"upload", "commit"} => ~HasDuplicates(YieldedRelations(w))

\* C33: collect_garbage completes for every number of Object rows: it raises
\* no error on an empty table, and on a table with rows the filter size m
\* and the number of hash functions k are both at least 1.
C33_CollectCompletes ==
    /\ ~(ev.op = "gc_error" /\ ev.out = "ZeroDivisionError")
    /\ objects # {} =>
           /\ BloomM(Cardinality(objects)) >= 1
           /\ BloomK(Cardinality(objects)) >= 1

\* the objids that the payload of object o refers to: the children of a tree,
\* the chunks of a chunked file
PayloadRefs(o) ==
    IF o \in DOMAIN hashed
    THEN {hashed[o].refs[k][2] : k \in DOMAIN hashed[o].refs}
    ELSE {}

\* the objects of S and what their payloads lead to
RECURSIVE PayloadClosure(_)
PayloadClosure(S) ==
    LET more == S \cup UNION {PayloadRefs(o) : o \in S}
    IN  IF more = S THEN S ELSE PayloadClosure(more)

\* C34: whatever scans, backups and garbage collections have run, with the
\* caller deleting the Objects that collect_garbage yields, every Snapshot's
\* root has its Object row and so has every Object that the payloads lead to
\* from that root.
C34_NoDanglingSnapshot ==
    \A sn \in snapshots : PayloadClosure({sn.root}) \subseteq objects

=============================================================================
